---------------------------- MODULE Spec2Model ----------------------------
(***************************************************************************)
(* trivy-scheduler (src/src/main.rs): a cron-driven loop that lists the    *)
(* containers of several Docker hosts, scans every distinct image with     *)
(* trivy and sends a shoutrrr notification for every vulnerable image.     *)
(*                                                                         *)
(* Strings the program computes with are sequences of one-character        *)
(* strings, so that split, replace and format are modelled by what they do.*)
(* Time is counted in whole seconds.                                       *)
(***************************************************************************)
EXTENDS Integers, Sequences, FiniteSets, TLC

(***************************************************************************)
(* Bounds of the model.                                                    *)
(***************************************************************************)
\* most --hosts values on the command line
MaxHosts == 2
\* most containers one host reports in one listing
MaxContainers == 2
\* the clock stops at this second
MaxTime == 6
\* most pieces a --notify-template value is put together from (SpecRender)
MaxSegments == 2

(***************************************************************************)
(* Inputs.                                                                 *)
(***************************************************************************)
\* --hosts values: a unix socket, a remote URL, something that is no URL
HostArgs == {"unix:///var/run/docker.sock", "tcp://10.0.0.2:2375", "not a url"}

\* --schedule values: every 2nd second, every 3rd second, no cron expression
ScheduleArgs == {"*/2 * * * * *", "*/3 * * * * *", "whenever"}

\* containers a host may report: (image, image_id)
Containers ==
    { [image |-> <<"a">>, image_id |-> <<"s", ":", "x">>],
      [image |-> <<"b">>, image_id |-> <<"s", ":", "x">>],
      [image |-> <<"c">>, image_id |-> <<"s", ":", "y">>],
      [image |-> <<"d">>, image_id |-> <<"y">>] }

\* what a host query returns: Err, or Ok with the list of containers
HostResponses ==
    { [ok |-> FALSE, containers |-> <<>>] } \cup
    { [ok |-> TRUE, containers |-> cs] :
        cs \in UNION { [1..n -> Containers] : n \in 0..MaxContainers } }

\* how a subprocess ends: it exits with a code, or it cannot be launched
ProcessResults ==
    { [launched |-> TRUE, code |-> 0], [launched |-> TRUE, code |-> 1],
      [launched |-> TRUE, code |-> 2], [launched |-> FALSE, code |-> 0] }

\* --notify-template: "{name}:{id}"
NotifyTemplate == <<"{", "n", "a", "m", "e", "}", ":", "{", "i", "d", "}">>

\* names of environment variables
TrivyPrefix == <<"T", "R", "I", "V", "Y">>
TrivyTemplateVar == <<"T", "R", "I", "V", "Y", "_", "T", "E", "M", "P", "L", "A", "T", "E">>
EnvNames ==
    { TrivyTemplateVar,
      <<"T", "R", "I", "V", "Y", "_", "X">>,
      <<"T", "R", "I", "V", "Y">>,
      <<"T", "R", "I", "V">>,
      <<"P", "A", "T", "H">> }

\* the environments the orchestrator may be started in: some of the names,
\* each with a value
Envs == UNION { [names -> {"u", "v"}] : names \in SUBSET EnvNames }

\* the environment of the runs of Spec
MainEnv == [n \in { <<"T", "R", "I", "V", "Y", "_", "X">>, <<"P", "A", "T", "H">> }
               |-> "u"]

\* seconds a blocking external call (host query, trivy, shoutrrr) may take
CallTimes == {0, 1}

\* whole seconds the clock may go up by during one sleep of a second
SleepTimes == {1, 2}

NoTime == -1

\* the clock when the process starts
StartTime == 0

(***************************************************************************)
(* Strings.                                                                *)
(***************************************************************************)
RECURSIVE Split(_, _)
\* str::split(sep): the pieces between the separators, in order
Split(s, sep) ==
    IF \E i \in 1..Len(s) : s[i] = sep
    THEN LET i == CHOOSE k \in 1..Len(s) :
                    s[k] = sep /\ \A j \in 1..(k - 1) : s[j] # sep
         IN  <<SubSeq(s, 1, i - 1)>> \o Split(SubSeq(s, i + 1, Len(s)), sep)
    ELSE <<s>>

RECURSIVE Replace(_, _, _)
\* str::replace(from, to): every non-overlapping match, left to right
Replace(s, from, to) ==
    IF Len(s) < Len(from) THEN s
    ELSE IF SubSeq(s, 1, Len(from)) = from
         THEN to \o Replace(SubSeq(s, Len(from) + 1, Len(s)), from, to)
         ELSE <<Head(s)>> \o Replace(Tail(s), from, to)

NamePlaceholder == <<"{", "n", "a", "m", "e", "}">>
IdPlaceholder == <<"{", "i", "d", "}">>


(***************************************************************************)
(* Image: identity is the digest alone.                                    *)
(***************************************************************************)
\* Image::new unwraps the second piece of image_id.split(':'): it panics
\* when the id holds no ':'
ImageNewPanics(id) == Len(Split(id, ":")) < 2

\* the id is kept as it is listed
ImageNewKeepPrefix(name, id) == [name |-> name, id |-> id]

\* Image::new: the name as listed, the id cut down to its second piece
ImageNew(name, id) == [name |-> name, id |-> Split(id, ":")[2]]

\* a derived PartialEq: every field takes part
ImageEqStructural(a, b) == a = b

\* impl PartialEq for Image (and Hash): the name takes no part
ImageEq(a, b) == a.id = b.id

\* an element equal to the new one is replaced by it
InsertReplace(set, img) == { e \in set : e.id # img.id } \cup {img}

\* HashSet::insert: an element equal to one already present is dropped
Insert(set, img) ==
    IF \E e \in set : ImageEq(e, img) THEN set ELSE set \cup {img}

RECURSIVE InsertAll(_, _)
\* HashSet::extend / collect over an iterator, in iteration order
InsertAll(set, imgs) ==
    IF imgs = <<>> THEN set
    ELSE InsertAll(Insert(set, Head(imgs)), Tail(imgs))

\* the iteration orders of a HashSet: any order of its elements
IntoIter(S) ==
    { q \in [1..Cardinality(S) -> S] :
         \A i, j \in 1..Cardinality(S) : q[i] = q[j] => i = j }

\* Docker::get_image_list on an Ok listing: map Image::new, collect
CollectImages(containers) ==
    InsertAll({}, [i \in 1..Len(containers) |->
                     ImageNew(containers[i].image, containers[i].image_id)])

\* the listing makes Image::new panic
ListingPanics(resp) ==
    resp.ok /\ \E i \in 1..Len(resp.containers) :
                   ImageNewPanics(resp.containers[i].image_id)

\* Docker::get_image_list: None on Err, Some(set) on Ok
DockerGetImageList(resp) ==
    IF resp.ok THEN [some |-> TRUE, set |-> CollectImages(resp.containers)]
    ELSE [some |-> FALSE, set |-> {}]

\* a failing host throws away what the earlier hosts gave
ExtendImagesReset(imgs, newones) ==
    IF newones.some
    THEN { InsertAll(imgs, q) : q \in IntoIter(newones.set) }
    ELSE { {} }

\* a host's images take the place of what the earlier hosts gave
ExtendImagesOverwrite(imgs, newones) ==
    IF newones.some THEN { newones.set } ELSE { imgs }

\* one turn of the loop of Vec<Docker>::get_image_list: extend on Some, in
\* the order the new set iterates; the sets that can come out
ExtendImages(imgs, newones) ==
    IF newones.some
    THEN { InsertAll(imgs, q) : q \in IntoIter(newones.set) }
    ELSE { imgs }

\* None when no host gave an image
AggregateResultNoneIfEmpty(imgs) == [some |-> imgs # {}, set |-> imgs]

\* what Vec<Docker>::get_image_list returns after its loop
AggregateResult(imgs) == [some |-> TRUE, set |-> imgs]

\* the digest of a listed container: the second piece of its image id, as
\* Image::new takes it (no value for an id without ":", where it panics)
Digest(c) == Split(c.image_id, ":")[2]

(***************************************************************************)
(* Subprocesses.                                                           *)
(***************************************************************************)
\* ExitStatus::success
Success(res) == res.launched /\ res.code = 0

\* format!("/output/{}.html", image.id)
OutputPath(id) == <<"/", "o", "u", "t", "p", "u", "t", "/">> \o id
                      \o <<".", "h", "t", "m", "l">>

\* str::starts_with
StartsWith(s, prefix) ==
    Len(s) >= Len(prefix) /\ SubSeq(s, 1, Len(prefix)) = prefix

\* Command::env / envs: the later value of a name replaces the earlier
Overlay(base, over) ==
    [n \in DOMAIN base \cup DOMAIN over |->
        IF n \in DOMAIN over THEN over[n] ELSE base[n]]

\* the scanner inherits the orchestrator's environment (no env_clear)
TrivyEnvInherited(e) ==
    Overlay(Overlay(e, [n \in {TrivyTemplateVar} |-> "@templates/html.tpl"]),
            [n \in { m \in DOMAIN e : StartsWith(m, TrivyPrefix) } |-> e[n]])

\* run_trivy's environment for trivy: cleared, TRIVY_TEMPLATE set, then
\* the orchestrator's variables whose names start with TRIVY
TrivyEnv(e) ==
    Overlay([n \in {TrivyTemplateVar} |-> "@templates/html.tpl"],
            [n \in { m \in DOMAIN e : StartsWith(m, TrivyPrefix) } |-> e[n]])

\* the report named after the image's name
TrivyInvocationByName(image) ==
    [target |-> image.name, output |-> OutputPath(image.name)]

\* the arguments run_trivy gives trivy for an image
TrivyInvocation(image) == [target |-> image.name, output |-> OutputPath(image.id)]

\* only exit code 1 counts as findings
RunTrivyOnlyExitOne(res) == res.launched /\ res.code # 1

\* run_trivy's return value: the scan was clean
RunTrivy(res) == Success(res)

\* a scanner that cannot be launched is passed over
RunTrivyNeverPanics(res) == FALSE

\* trivy.output().expect("failed to run trivy"): Err when the scanner
\* cannot be launched
RunTrivyPanics(res) == ~res.launched

\* send_notification's message
RenderMessage(template, image) ==
    Replace(Replace(template, NamePlaceholder, image.name),
            IdPlaceholder, image.id)

\* send_notification logs a failure
SendFailed(res) == ~res.launched \/ ~Success(res)

\* status.unwrap() without the is_err test before it
SendUnwrapFirst(res) == ~res.launched

\* status.is_err() || !status.unwrap().success(): the unwrap is evaluated
\* only when status is no error, and panics only on an error
SendUnwrapPanics(res) ==
    LET is_err == ~res.launched IN (~is_err) /\ is_err

(***************************************************************************)
(* Startup and schedule.                                                   *)
(***************************************************************************)
\* host.strip_prefix("unix://") succeeds, or host.parse() does
HostValid(h) == h # "not a url"

\* an expression that does not parse is taken as "every second"
ScheduleFromStrLenient(s) ==
    CASE s = "*/2 * * * * *" -> 2
      [] s = "*/3 * * * * *" -> 3
      [] OTHER -> 1

\* Schedule::from_str: the period in seconds, 0 for a parse error
ScheduleFromStr(s) ==
    CASE s = "*/2 * * * * *" -> 2
      [] s = "*/3 * * * * *" -> 3
      [] OTHER -> 0

\* the schedule matches second t
IsMatch(period, t) == t % period = 0

\* a time that matches is its own next time
AfterInclusive(period, t) ==
    IF t % period = 0 THEN t ELSE t + (period - (t % period))

\* schedule.after(t).next(): the first matching second strictly after t
After(period, t) == t + (period - (t % period))

(***************************************************************************)
(* State.                                                                  *)
(***************************************************************************)
VARIABLES
    hostsArg,     \* the --hosts values main has not looked at yet
    scheduleArg,  \* the --schedule value
    template,     \* the --notify-template value
    env,          \* the orchestrator's environment variables
    answers,      \* what each host answers when the answers are fixed
                  \* beforehand (to compare host orders), else <<>>
    servers,      \* main's Vec<Docker>, one client per host argument
    schedule,     \* the parsed Schedule (its period), 0 before startup
    loop,         \* where main is: "start", "tick", "blocked" (inside the
                  \* job's closure), "sleep", "panicked"
    panic,        \* the panic that ended the process, "" if none
    now,          \* the clock (Utc::now), in seconds
    last_tick,    \* the time up to which the scheduler has looked at the
                  \* schedule, NoTime before the first tick
    tick_now,     \* the time of the tick that started the run in progress
    active,       \* closure invocations in progress
    phase,        \* where the run is: "idle", "query", "scan", "notify",
                  \* "report"
    hostIdx,      \* the server the aggregator queries next
    images,       \* the aggregator's HashSet<Image>
    pending,      \* check_images: images the for loop has not reached yet
    vulnerable,   \* check_images' Vec<Image>
    scans,        \* trivy invocations of this run, in order
    sends,        \* shoutrrr invocations of this run, in order
    noVuln,       \* this run printed "No vulnerabilities found"
    nextRun,      \* the time of the last "Next run scheduled for" line
    reported,     \* containers the answering hosts listed in this run,
                  \* kept until its first scanner starts
    failed,       \* how many servers' queries failed in this run
    trigger,      \* the schedule time on whose account this run started
    lastDone,     \* when the previous run returned, NoTime if none did
    prevRun       \* the run that returned last: when it started, whether
                  \* all its hosts failed, whether it started a sender
                  \* after another sender had failed

vars == <<hostsArg, scheduleArg, template, env, answers, servers, schedule, loop, panic, now,
          last_tick, tick_now, active, phase, hostIdx, images, pending,
          vulnerable, scans, sends, noVuln, nextRun, reported, failed,
          trigger, lastDone, prevRun>>

configVars == <<hostsArg, scheduleArg, template, env, answers, servers,
                schedule>>
runVars == <<hostIdx, images, pending, vulnerable, scans, sends, noVuln,
             reported, failed, trigger>>

NoRun == [completed |-> FALSE, started |-> NoTime, allHostsFailed |-> FALSE,
          sentAfterFailure |-> FALSE]

Init ==
    /\ hostsArg \in UNION { [1..n -> HostArgs] : n \in 1..MaxHosts }
    /\ scheduleArg \in ScheduleArgs
    /\ template = NotifyTemplate
    /\ env = MainEnv
    /\ answers = <<>>
    /\ servers = <<>>
    /\ schedule = 0
    /\ loop = "start"
    /\ panic = ""
    /\ now = StartTime
    /\ last_tick = NoTime
    /\ tick_now = NoTime
    /\ active = 0
    /\ phase = "idle"
    /\ hostIdx = 1
    /\ images = {}
    /\ pending = {}
    /\ vulnerable = <<>>
    /\ scans = <<>>
    /\ sends = <<>>
    /\ noVuln = FALSE
    /\ nextRun = NoTime
    /\ reported = {}
    /\ failed = 0
    /\ trigger = NoTime
    /\ lastDone = NoTime
    /\ prevRun = NoRun

\* a panic unwinds main: the process is gone
Panic(msg) ==
    /\ loop' = "panicked"
    /\ panic' = msg

\* how long the next blocking call may take, within the clock's range
Durations == { d \in CallTimes : now + d <= MaxTime }

(***************************************************************************)
(* main, lines 199-217: build the clients, parse the schedule, print the   *)
(* next run.                                                               *)
(***************************************************************************)
Startup ==
    /\ loop = "start"
    /\ IF \E i \in 1..Len(hostsArg) : ~HostValid(hostsArg[i])
       THEN /\ Panic("Invalid host URL")
            /\ UNCHANGED <<hostsArg, servers, schedule, nextRun>>
       ELSE IF ScheduleFromStr(scheduleArg) = 0
       THEN /\ Panic("unwrap on Err: invalid schedule")
            /\ servers' = [i \in 1..Len(hostsArg) |-> i]
            /\ hostsArg' = <<>>
            /\ UNCHANGED <<schedule, nextRun>>
       ELSE /\ servers' = [i \in 1..Len(hostsArg) |-> i]
            /\ hostsArg' = <<>>
            /\ schedule' = ScheduleFromStr(scheduleArg)
            /\ nextRun' = After(schedule', now)
            /\ loop' = "tick"
            /\ panic' = panic
    /\ UNCHANGED <<scheduleArg, template, env, answers, now, last_tick,
                   tick_now, active, phase, runVars, lastDone, prevRun>>

(***************************************************************************)
(* scheduler.tick(): the scheduler of the specification checks whether a   *)
(* schedule time has come since its last check, and calls the closure when *)
(* one has.  The closure blocks main (rt.block_on) until the run is over.  *)
(***************************************************************************)
\* the closure is started and tick does not wait for it
CallJobDetached(event) ==
    /\ loop' = "sleep"
    /\ tick_now' = now
    /\ active' = active + 1
    /\ phase' = "query"
    /\ hostIdx' = 1
    /\ images' = {}
    /\ pending' = {}
    /\ vulnerable' = <<>>
    /\ scans' = <<>>
    /\ sends' = <<>>
    /\ noVuln' = FALSE
    /\ reported' = {}
    /\ failed' = 0
    /\ trigger' = event
    /\ last_tick' = now

\* the inventory is a field that outlives the run
CallJobKeepInventory(event) ==
    /\ loop' = "blocked"
    /\ tick_now' = now
    /\ active' = active + 1
    /\ phase' = "query"
    /\ hostIdx' = 1
    /\ images' = images
    /\ pending' = {}
    /\ vulnerable' = <<>>
    /\ scans' = <<>>
    /\ sends' = <<>>
    /\ noVuln' = FALSE
    /\ reported' = {}
    /\ failed' = 0
    /\ trigger' = event
    /\ UNCHANGED last_tick

\* the closure is called: a fresh run starts, main is inside it
CallJob(event) ==
    /\ loop' = "blocked"
    /\ tick_now' = now
    /\ active' = active + 1
    /\ phase' = "query"
    /\ hostIdx' = 1
    /\ images' = {}
    /\ pending' = {}
    /\ vulnerable' = <<>>
    /\ scans' = <<>>
    /\ sends' = <<>>
    /\ noVuln' = FALSE
    /\ reported' = {}
    /\ failed' = 0
    /\ trigger' = event
    /\ UNCHANGED last_tick

\* the first tick (the first run is the one printed at startup, after the
\* time of startup), or no schedule time has come: checked up to now
SkipJob ==
    /\ loop' = "sleep"
    /\ last_tick' = now
    /\ UNCHANGED <<tick_now, active, phase, runVars>>

\* one check of the schedule: a schedule time has come since the last
\* check, also when the sleep passed over its second, and starts a run
Tick ==
    /\ loop = "tick"
    /\ IF last_tick = NoTime THEN SkipJob
       ELSE IF After(schedule, last_tick) > now THEN SkipJob
       ELSE CallJob(After(schedule, last_tick))
    /\ UNCHANGED <<configVars, panic, now, nextRun, lastDone, prevRun>>

\* std::thread::sleep(Duration::from_secs(1)): the thread sleeps at least
\* a second, so the clock's whole seconds go up by one, or by two when the
\* sleep began just before a second ended
Sleep ==
    /\ loop = "sleep"
    /\ \E d \in SleepTimes :
          /\ now + d <= MaxTime
          /\ now' = now + d
    /\ loop' = "tick"
    /\ UNCHANGED <<configVars, panic, last_tick, tick_now, active, phase,
                   runVars, nextRun, lastDone, prevRun>>

(***************************************************************************)
(* The run: run_checker -> check_images -> get_image_list, run_trivy,      *)
(* send_notification.  One action per blocking external call.              *)
(***************************************************************************)
Range(f) == { f[i] : i \in DOMAIN f }

\* check_images once it holds the aggregator's result: unwrap it, and with
\* nothing to scan run_checker prints its line and the report is next
StartScans(result) ==
    IF ~result.some
    THEN /\ Panic("check_images: unwrap on None")
         /\ UNCHANGED <<phase, pending, noVuln>>
    ELSE /\ pending' = result.set
         /\ phase' = IF result.set = {} THEN "report" ELSE "scan"
         /\ noVuln' = (result.set = {})
         /\ UNCHANGED <<loop, panic>>

\* the result is returned inside the loop, after the first server
MoreServersFirstOnly(idx) == FALSE

\* `for server in self`: there is another server to query
MoreServers(idx) == idx <= Len(servers)

\* server.get_image_list().await for the next server, and what follows it
\* without another external call
QueryHost(resp, durations) ==
    /\ loop = "blocked"
    /\ phase = "query"
    /\ hostIdx <= Len(servers)
    /\ IF ListingPanics(resp)
       THEN /\ Panic("Image::new: unwrap on None")
            /\ UNCHANGED <<phase, hostIdx, images, pending, noVuln,
                           reported, failed>>
       ELSE /\ images' \in ExtendImages(images, DockerGetImageList(resp))
            /\ reported' = reported \cup Range(resp.containers)
            /\ failed' = IF resp.ok THEN failed ELSE failed + 1
            /\ hostIdx' = hostIdx + 1
            /\ IF MoreServers(hostIdx')
               THEN UNCHANGED <<loop, panic, phase, pending, noVuln>>
               ELSE StartScans(AggregateResult(images'))
    /\ UNCHANGED <<configVars, last_tick, tick_now, active, vulnerable,
                   scans, sends, nextRun, trigger, lastDone, prevRun>>
    /\ \E d \in durations : now' = now + d

\* one turn of check_images' loop: run_trivy on an image the loop reaches
\* (a HashSet iterates in no particular order); of the hosts' listings only
\* the inventory is left by now
ScanImage(image, res, durations) ==
    /\ loop = "blocked"
    /\ phase = "scan"
    /\ image \in pending
    /\ scans' = Append(scans, [image |-> image, args |-> TrivyInvocation(image),
                               env |-> TrivyEnv(env), result |-> res])
    /\ IF RunTrivyPanics(res)
       THEN /\ Panic("failed to run trivy")
            /\ UNCHANGED <<phase, pending, vulnerable, noVuln>>
       ELSE /\ vulnerable' = IF RunTrivy(res) THEN vulnerable
                             ELSE Append(vulnerable, image)
            /\ pending' = pending \ {image}
            /\ phase' = IF pending' # {} THEN "scan"
                        ELSE IF Len(vulnerable') = 0 THEN "report"
                        ELSE "notify"
            /\ noVuln' = (pending' = {} /\ Len(vulnerable') = 0)
            /\ UNCHANGED <<loop, panic>>
    /\ reported' = {}
    /\ UNCHANGED <<configVars, last_tick, tick_now, active, hostIdx, images,
                   sends, nextRun, failed, trigger, lastDone, prevRun>>
    /\ \E d \in durations : now' = now + d

\* one turn of run_checker's loop: send_notification for the next
\* vulnerable image; a failure is only logged
Notify(res, durations) ==
    /\ loop = "blocked"
    /\ phase = "notify"
    /\ Len(sends) < Len(vulnerable)
    /\ LET image == vulnerable[Len(sends) + 1]
       IN  sends' = Append(sends,
                           [image |-> image,
                            message |-> RenderMessage(template, image),
                            failed |-> SendFailed(res)])
    /\ IF SendUnwrapPanics(res)
       THEN /\ Panic("called unwrap on Err")
            /\ UNCHANGED phase
       ELSE /\ phase' = IF Len(sends') < Len(vulnerable) THEN "notify"
                        ELSE "report"
            /\ UNCHANGED <<loop, panic>>
    /\ UNCHANGED <<configVars, last_tick, tick_now, active,
                   hostIdx, images, pending, vulnerable, scans, noVuln,
                   nextRun, reported, failed, trigger, lastDone, prevRun>>
    /\ \E d \in durations : now' = now + d

\* the time the tick checks resume from after a run: the time the run
\* completed, so that schedule times that fell during the run are absorbed
\* (the scheduler of the specification; the job_scheduler crate is not
\* part of the sources)
TickTime == now

\* the closure's last line prints the next run; it returns, the scheduler
\* resumes its checks from now on, and main goes to sleep
Report ==
    /\ loop = "blocked"
    /\ phase = "report"
    /\ nextRun' = After(schedule, now)
    /\ phase' = "idle"
    /\ active' = active - 1
    /\ last_tick' = TickTime
    /\ tick_now' = NoTime
    /\ loop' = "sleep"
    /\ lastDone' = now
    /\ prevRun' = [completed |-> TRUE,
                   started |-> tick_now,
                   allHostsFailed |-> (failed = Len(servers)),
                   sentAfterFailure |->
                       \E i \in 1..(Len(sends) - 1) : sends[i].failed]
    /\ UNCHANGED <<configVars, panic, now, runVars>>

Next ==
    \/ Startup
    \/ Tick
    \/ Sleep
    \/ \E resp \in HostResponses : QueryHost(resp, Durations)
    \/ \E image \in pending, res \in ProcessResults :
          ScanImage(image, res, Durations)
    \/ \E res \in ProcessResults : Notify(res, Durations)
    \/ Report

Spec == Init /\ [][Next]_vars

(***************************************************************************)
(* Rendering on its own: send_notification on templates, names and         *)
(* digests that hold braces and placeholders.  The state is that of a run  *)
(* of one host whose one image was found vulnerable and is about to be     *)
(* notified.                                                               *)
(***************************************************************************)
RECURSIVE Flatten(_)
Flatten(ss) == IF ss = <<>> THEN <<>> ELSE Head(ss) \o Flatten(Tail(ss))

Segments == { NamePlaceholder, IdPlaceholder, <<"x">>, <<"{">>, <<"}">> }

Templates ==
    { Flatten(ss) : ss \in UNION { [1..n -> Segments] : n \in 0..MaxSegments } }

RenderNames == { <<"a">>, IdPlaceholder, NamePlaceholder }

RenderIds == { <<"d">>, NamePlaceholder }

InitRender ==
    \E name \in RenderNames, id \in RenderIds :
       LET image == ImageNew(name, <<"s", ":">> \o id) IN
       /\ template \in Templates
       /\ env = MainEnv
       /\ answers = <<>>
       /\ hostsArg = <<>>
       /\ scheduleArg = "*/2 * * * * *"
       /\ servers = <<1>>
       /\ schedule = 2
       /\ loop = "blocked"
       /\ panic = ""
       /\ now = 2
       /\ last_tick = 1
       /\ tick_now = 2
       /\ active = 1
       /\ phase = "notify"
       /\ hostIdx = 2
       /\ images = {image}
       /\ pending = {}
       /\ vulnerable = <<image>>
       /\ scans = << [image |-> image, args |-> TrivyInvocation(image),
                      env |-> TrivyEnv(env),
                      result |-> [launched |-> TRUE, code |-> 1]] >>
       /\ sends = <<>>
       /\ noVuln = FALSE
       /\ nextRun = 2
       /\ reported = {}
       /\ failed = 0
       /\ trigger = 2
       /\ lastDone = NoTime
       /\ prevRun = NoRun

NextRender == \E res \in ProcessResults : Notify(res, Durations)

SpecRender == InitRender /\ [][NextRender]_vars

(***************************************************************************)
(* The scanner's environment on its own: run_trivy in every environment of *)
(* Envs.  The state is that of a run of one host that listed one image,    *)
(* about to be scanned.                                                    *)
(***************************************************************************)
InitEnv ==
    LET image == ImageNew(<<"a">>, <<"s", ":", "x">>) IN
    /\ env \in Envs
    /\ answers = <<>>
    /\ template = NotifyTemplate
    /\ hostsArg = <<>>
    /\ scheduleArg = "*/2 * * * * *"
    /\ servers = <<1>>
    /\ schedule = 2
    /\ loop = "blocked"
    /\ panic = ""
    /\ now = 2
    /\ last_tick = 1
    /\ tick_now = 2
    /\ active = 1
    /\ phase = "scan"
    /\ hostIdx = 2
    /\ images = {image}
    /\ pending = {image}
    /\ vulnerable = <<>>
    /\ scans = <<>>
    /\ sends = <<>>
    /\ noVuln = FALSE
    /\ nextRun = 2
    /\ reported = { [image |-> <<"a">>, image_id |-> <<"s", ":", "x">>] }
    /\ failed = 0
    /\ trigger = 2
    /\ lastDone = NoTime
    /\ prevRun = NoRun

NextEnv ==
    \E image \in pending, res \in ProcessResults :
       ScanImage(image, res, Durations)

SpecEnv == InitEnv /\ [][NextEnv]_vars

(***************************************************************************)
(* Image::new on its own: one host lists one container whose image id is   *)
(* an algorithm name, a colon and hexadecimal text.                        *)
(***************************************************************************)
MaxHexLen == 2

Algorithms == { <<"s">>, <<"m", "d">>, <<"s", "h", "a">> }

HexDigits == {"a", "f", "0"}

HexTexts == UNION { [1..n -> HexDigits] : n \in 1..MaxHexLen }

DigestContainers ==
    { [image |-> name, image_id |-> algo \o <<":">> \o hex] :
        name \in {<<"a">>, <<"b">>}, algo \in Algorithms, hex \in HexTexts }

InitDigest ==
    /\ env = MainEnv
    /\ answers = <<>>
    /\ template = NotifyTemplate
    /\ hostsArg = <<>>
    /\ scheduleArg = "*/2 * * * * *"
    /\ servers = <<1>>
    /\ schedule = 2
    /\ loop = "blocked"
    /\ panic = ""
    /\ now = 2
    /\ last_tick = 1
    /\ tick_now = 2
    /\ active = 1
    /\ phase = "query"
    /\ hostIdx = 1
    /\ images = {}
    /\ pending = {}
    /\ vulnerable = <<>>
    /\ scans = <<>>
    /\ sends = <<>>
    /\ noVuln = FALSE
    /\ nextRun = 2
    /\ reported = {}
    /\ failed = 0
    /\ trigger = 2
    /\ lastDone = NoTime
    /\ prevRun = NoRun

NextDigest ==
    \E c \in DigestContainers :
       QueryHost([ok |-> TRUE, containers |-> <<c>>], Durations)

SpecDigest == InitDigest /\ [][NextDigest]_vars

(***************************************************************************)
(* The aggregation on its own: the answer of every host is fixed           *)
(* beforehand and the servers are queried in any order of the host list.   *)
(***************************************************************************)
\* the answers a host may give: an error, or a listing
OrderResponses ==
    { [ok |-> FALSE, containers |-> <<>>],
      [ok |-> TRUE, containers |-> <<>>],
      [ok |-> TRUE, containers |->
          << [image |-> <<"a">>, image_id |-> <<"s", ":", "x">>] >>],
      [ok |-> TRUE, containers |->
          << [image |-> <<"b">>, image_id |-> <<"s", ":", "x">>],
             [image |-> <<"c">>, image_id |-> <<"s", ":", "y">>] >>],
      [ok |-> TRUE, containers |->
          << [image |-> <<"c">>, image_id |-> <<"s", ":", "y">>],
             [image |-> <<"a">>, image_id |-> <<"s", ":", "y">>] >>] }

\* the orders in which n hosts can stand in the host list
Orders(n) == { p \in [1..n -> 1..n] : \A i, j \in 1..n : p[i] = p[j] => i = j }

RECURSIVE AggregateInOrder(_, _, _)
\* Vec<Docker>::get_image_list over the hosts in the given order: the
\* inventories that can come out
AggregateInOrder(resps, order, imgs) ==
    IF order = <<>> THEN { imgs }
    ELSE UNION { AggregateInOrder(resps, Tail(order), next) :
                    next \in ExtendImages(imgs,
                                DockerGetImageList(resps[Head(order)])) }

InitOrder ==
    /\ env = MainEnv
    /\ template = NotifyTemplate
    /\ hostsArg = <<>>
    /\ scheduleArg = "*/2 * * * * *"
    /\ \E n \in 1..MaxHosts :
          /\ answers \in [1..n -> OrderResponses]
          /\ servers \in Orders(n)
    /\ schedule = 2
    /\ loop = "blocked"
    /\ panic = ""
    /\ now = 2
    /\ last_tick = 1
    /\ tick_now = 2
    /\ active = 1
    /\ phase = "query"
    /\ hostIdx = 1
    /\ images = {}
    /\ pending = {}
    /\ vulnerable = <<>>
    /\ scans = <<>>
    /\ sends = <<>>
    /\ noVuln = FALSE
    /\ nextRun = 2
    /\ reported = {}
    /\ failed = 0
    /\ trigger = 2
    /\ lastDone = NoTime
    /\ prevRun = NoRun

\* the run on these answers; how long the calls take plays no part
NextOrder ==
    \/ QueryHost(answers[servers[hostIdx]], {0})
    \/ \E image \in pending, res \in ProcessResults : ScanImage(image, res, {0})
    \/ \E res \in ProcessResults : Notify(res, {0})

SpecOrder == InitOrder /\ [][NextOrder]_vars

(***************************************************************************)
(* Properties.                                                             *)
(***************************************************************************)
\* the run whose variables the state holds has returned
RunReturned == phase = "idle" /\ prevRun.completed

\* main is checking or waiting for the schedule
Ticking == loop \in {"tick", "sleep"}

\* schedule times in the interval (from, to]
MatchesIn(from, to) == { t \in (from + 1)..to : IsMatch(schedule, t) }

\* C1: runs are serialized.  At most one run is in progress; while main
\* checks the schedule or sleeps no run is in progress, and the run before
\* has gone through all its hosts, scans and notifications and printed the
\* next time; a run in progress holds main inside the closure.
C1_RunsSerialized ==
    /\ active \in {0, 1}
    /\ (active = 1) <=> (phase # "idle")
    /\ Ticking => active = 0
    /\ (phase # "idle" /\ loop # "panicked") => loop = "blocked"
    /\ (Ticking /\ lastDone # NoTime) =>
          /\ RunReturned
          /\ hostIdx = Len(servers) + 1
          /\ pending = {}
          /\ Len(sends) = Len(vulnerable)
          /\ nextRun = After(schedule, lastDone)

\* the next tick check after a run that lasted longer than the interval
\* between two schedule times
C1_Witness ==
    /\ loop = "tick"
    /\ RunReturned
    /\ last_tick = lastDone
    /\ lastDone - prevRun.started > schedule
    /\ active = 0

Digests(containers) == { Digest(c) : c \in containers }

ImageIds(imgs) == { i.id : i \in imgs }

\* the images the scanner was started on in this run
Scanned == { scans[i].image : i \in 1..Len(scans) }

\* the images a notification was attempted for in this run
Notified == { sends[i].image : i \in 1..Len(sends) }

\* the scanned images whose scanner exited with a non-zero code
FoundVulnerable ==
    { scans[i].image : i \in { j \in 1..Len(scans) :
                                 /\ scans[j].result.launched
                                 /\ scans[j].result.code # 0 } }

\* C3: dedup.  The inventory holds exactly one Image for each distinct
\* digest the answering hosts reported, whatever the display names, and
\* two Images are equal exactly when their digests are.
C3_OneImagePerDigest ==
    /\ \A a \in images, b \in images : a.id = b.id => a = b
    /\ scans = <<>> =>
          /\ ImageIds(images) = Digests(reported)
          /\ Cardinality(images) = Cardinality(Digests(reported))
    /\ LET img == [c \in reported |-> ImageNew(c.image, c.image_id)]
           dig == [c \in reported |-> Digest(c)]
       IN  \A c1 \in reported, c2 \in reported :
              ImageEq(img[c1], img[c2]) <=> dig[c1] = dig[c2]

\* two hosts' containers with one digest under two names, one Image
C3_Witness ==
    /\ hostIdx = 3
    /\ failed = 0
    /\ \E c1 \in reported, c2 \in reported :
          c1.image # c2.image /\ Digest(c1) = Digest(c2)
    /\ Cardinality(images) = 1

\* C4: host failure isolation.  Whatever hosts fail, the aggregator goes
\* through all servers (a query that fails never ends the process: while
\* the hosts are queried only a malformed image id does), the inventory is
\* that of the answering hosts, the aggregated result is never None, and
\* the run that returns has scanned every image of the answering hosts and
\* notified the vulnerable ones.
C4_HostFailureIsolated ==
    /\ panic # "check_images: unwrap on None"
    /\ (loop = "panicked" /\ phase = "query") =>
          panic = "Image::new: unwrap on None"
    /\ (phase \in {"scan", "notify", "report"} \/ RunReturned) =>
          /\ hostIdx = Len(servers) + 1
          /\ scans = <<>> => ImageIds(images) = Digests(reported)
    /\ RunReturned =>
          /\ ImageIds(Scanned) = ImageIds(images)
          /\ Notified = FoundVulnerable

\* a run returned in which one host failed and the other host's image was
\* scanned, found vulnerable and notified
C4_Witness ==
    /\ RunReturned
    /\ failed = 1
    /\ Len(servers) = 2
    /\ Notified # {}

\* C5: when every host fails the aggregator gives the empty set, the run
\* starts no scanner and no sender, prints "No vulnerabilities found" and
\* returns: the process goes on.
C5_AllHostsFail ==
    (hostIdx = Len(servers) + 1 /\ failed = Len(servers)
        /\ servers # <<>> /\ (phase # "idle" \/ RunReturned)) =>
       /\ images = {}
       /\ scans = <<>>
       /\ sends = <<>>
       /\ noVuln
       /\ panic = ""
       /\ loop \in {"blocked", "sleep", "tick"}
       /\ phase \in {"report", "idle"}

\* a run in progress after a run in which every host failed
C5_Witness ==
    /\ prevRun.allHostsFailed
    /\ active = 1
    /\ phase = "scan"

\* C6: scan classification.  A scanned image is on the vulnerable list
\* exactly when its scanner exited with a non-zero code (clean exactly on
\* exit code 0), and the run that returns has attempted a notification for
\* exactly the vulnerable images.
C6_ScanClassification ==
    /\ \A i \in 1..Len(scans) :
          scans[i].result.launched =>
             /\ (scans[i].result.code = 0) <=>
                   (scans[i].image \notin Range(vulnerable))
             /\ (scans[i].result.code # 0) <=>
                   (scans[i].image \in Range(vulnerable))
    /\ Range(vulnerable) = FoundVulnerable
    /\ RunReturned => Notified = FoundVulnerable

\* a run returned with one image scanned clean and one with exit code 2
C6_Witness ==
    /\ RunReturned
    /\ \E i \in 1..Len(scans) : scans[i].result.code = 0
    /\ \E i \in 1..Len(scans) : scans[i].result.code = 2
    /\ Len(sends) = 1

\* C7: the scanner is started at most once for a digest, only for images
\* of the inventory, with the display name as target and
\* /output/<digest>.html as report, so no two scans of a run write the
\* same file; once the scans are over every digest of the inventory has
\* been scanned.
C7_OneScanPerDigest ==
    /\ \A i \in 1..Len(scans) :
          /\ scans[i].image \in images
          /\ scans[i].args.target = scans[i].image.name
          /\ scans[i].args.output =
                <<"/", "o", "u", "t", "p", "u", "t", "/">>
                   \o scans[i].image.id \o <<".", "h", "t", "m", "l">>
    /\ \A i \in 1..Len(scans), j \in 1..Len(scans) :
          i # j => /\ scans[i].image.id # scans[j].image.id
                   /\ scans[i].args.output # scans[j].args.output
    /\ (phase \in {"notify", "report"} \/ RunReturned) =>
          ImageIds(Scanned) = ImageIds(images)

\* the scans of an inventory of two digests are over
C7_Witness ==
    /\ phase \in {"notify", "report"}
    /\ Cardinality(images) = 2
    /\ Len(scans) = 2

\* C8: notification isolation.  The sender is started once for each
\* vulnerable image, in order; a failing sender does not end the process,
\* and the run that returns has started it for every vulnerable image.
C8_NotificationIsolated ==
    /\ Len(sends) <= Len(vulnerable)
    /\ \A i \in 1..Len(sends) : sends[i].image = vulnerable[i]
    /\ \A i \in 1..Len(vulnerable), j \in 1..Len(vulnerable) :
          i # j => vulnerable[i] # vulnerable[j]
    /\ (\E i \in 1..Len(sends) : sends[i].failed) =>
          /\ loop # "panicked"
          /\ phase \in {"notify", "report", "idle"}
    /\ RunReturned => Len(sends) = Len(vulnerable)

\* a later run sends a notification, after a run in which a sender failed
\* and the sender for the next vulnerable image was still started
C8_Witness ==
    /\ prevRun.sentAfterFailure
    /\ active = 1
    /\ Len(sends) = 1

\* C9 as stated: only configuration errors end the process; every
\* per-host, per-image and per-notification error (a scanner that cannot
\* be launched, a malformed image id) is absorbed and the run completes.
C9_OnlyConfigErrorsFatal ==
    loop = "panicked" =>
       panic \in {"Invalid host URL", "unwrap on Err: invalid schedule"}


RECURSIVE Substitute(_, _, _)
\* the template with every {name} replaced by name and every {id} by id,
\* in one pass over the template, everything else copied
Substitute(t, name, id) ==
    IF t = <<>> THEN <<>>
    ELSE IF Len(t) >= 6 /\ SubSeq(t, 1, 6) = NamePlaceholder
         THEN name \o Substitute(SubSeq(t, 7, Len(t)), name, id)
    ELSE IF Len(t) >= 4 /\ SubSeq(t, 1, 4) = IdPlaceholder
         THEN id \o Substitute(SubSeq(t, 5, Len(t)), name, id)
    ELSE <<Head(t)>> \o Substitute(Tail(t), name, id)

\* C10 as stated: the message is the template with every {name} replaced
\* by the display name and every {id} by the digest and all other text
\* untouched, also for names and digests that hold {id} or {name}.
C10_LiteralSubstitution ==
    \A i \in 1..Len(sends) :
       sends[i].message =
          Substitute(template, sends[i].image.name, sends[i].image.id)


\* the run steps main can take while it is inside the closure
RunStepPossible ==
    \/ phase = "query" /\ hostIdx <= Len(servers)
    \/ phase = "scan" /\ pending # {}
    \/ phase = "notify" /\ Len(sends) < Len(vulnerable)
    \/ phase = "report"

\* C11: configuration errors are fatal at startup.  With a host argument
\* that is no URL or a schedule that is no cron expression the process is
\* gone after startup, before the first tick: no host was queried, no
\* scanner and no sender started.  Once the loop has begun main is always
\* at a tick, inside a run that has a next step, or asleep: the only way
\* out is a panic.
C11_ConfigErrorsFatalAtStartup ==
    /\ (loop # "start" /\
          (\/ scheduleArg \notin {"*/2 * * * * *", "*/3 * * * * *"}
           \/ \E i \in 1..Len(hostsArg) : hostsArg[i] = "not a url")) =>
          /\ loop = "panicked"
          /\ panic \in {"Invalid host URL", "unwrap on Err: invalid schedule"}
          /\ schedule = 0
          /\ last_tick = NoTime
          /\ active = 0
          /\ phase = "idle"
          /\ hostIdx = 1
          /\ reported = {}
          /\ failed = 0
          /\ scans = <<>>
          /\ sends = <<>>
    /\ schedule # 0 =>
          /\ loop \in {"tick", "blocked", "sleep", "panicked"}
          /\ loop = "blocked" => RunStepPossible
          /\ loop = "panicked" => panic # ""

\* the process is gone at startup over a bad schedule, its hosts being fine
C11_Witness ==
    /\ loop = "panicked"
    /\ panic = "unwrap on Err: invalid schedule"
    /\ Len(servers) = 2


\* C12: no state is carried between runs.  A run starts with an empty
\* inventory and empty lists; what it scans and notifies is decided by
\* what the hosts list in this run alone, whatever the run before notified:
\* an image only an earlier run saw is not scanned, and an image notified
\* in the run before is, when listed and found vulnerable again, notified
\* again.
C12_NoStateBetweenRuns ==
    /\ (phase = "query" /\ hostIdx = 1) =>
          /\ images = {}
          /\ pending = {}
          /\ vulnerable = <<>>
          /\ scans = <<>>
          /\ sends = <<>>
    /\ scans = <<>> => ImageIds(images) = Digests(reported)
    /\ ImageIds(Scanned) \subseteq ImageIds(images)
    /\ ImageIds(Notified) \subseteq ImageIds(images)
    /\ phase = "report" =>
          /\ ImageIds(Scanned) = ImageIds(images)
          /\ Notified = FoundVulnerable

\* the run before started a sender after a failed one, so it notified two
\* digests; this run's hosts list one digest only: it alone is scanned, and
\* it is notified again
C12_Witness ==
    /\ phase = "report"
    /\ prevRun.sentAfterFailure
    /\ Cardinality(images) = 1
    /\ ImageIds(Scanned) = ImageIds(images)
    /\ ImageIds(Notified) = ImageIds(images)


\* two environments agree on the variables whose names start with TRIVY
AgreeOnTrivy(e1, e2) ==
    \A n \in EnvNames :
       (n # <<"T", "R", "I", "V">> /\ n # <<"P", "A", "T", "H">>) =>
          /\ (n \in DOMAIN e1) <=> (n \in DOMAIN e2)
          /\ n \in DOMAIN e1 => e1[n] = e2[n]

\* C13: scanner environment isolation.  The environment trivy is started
\* with holds TRIVY_TEMPLATE, and besides it exactly the orchestrator's
\* variables whose names start with TRIVY, with their values; it is the one
\* trivy would get in any other orchestrator environment with the same
\* TRIVY variables.
C13_ScannerEnvIsolated ==
    \A i \in 1..Len(scans) :
       LET e == scans[i].env IN
       /\ TrivyTemplateVar \in DOMAIN e
       /\ \A n \in DOMAIN e :
             n # TrivyTemplateVar =>
                /\ n \notin { <<"T", "R", "I", "V">>, <<"P", "A", "T", "H">> }
                /\ n \in DOMAIN env
       /\ \A n \in DOMAIN env :
             n \notin { <<"T", "R", "I", "V">>, <<"P", "A", "T", "H">> } =>
                n \in DOMAIN e /\ e[n] = env[n]
       /\ TrivyTemplateVar \notin DOMAIN env =>
             e[TrivyTemplateVar] = "@templates/html.tpl"
       /\ \A other \in Envs : AgreeOnTrivy(env, other) => TrivyEnv(other) = e

\* trivy was started in an environment that holds PATH, TRIV, TRIVY and
\* TRIVY_X but not TRIVY_TEMPLATE
C13_Witness ==
    /\ Len(scans) = 1
    /\ DOMAIN env = EnvNames \ {TrivyTemplateVar}
    /\ Cardinality(DOMAIN scans[1].env) = 3


\* when the last "Next run scheduled for" line was computed
NextRunComputedAt == IF prevRun.completed THEN lastDone ELSE StartTime

\* C14: scheduling determinism.  The next run printed at startup and after
\* each run is fixed by the schedule and the time it is computed at: it is
\* the earliest time the schedule matches that is strictly later than that
\* time.
C14_NextRunDetermined ==
    schedule # 0 =>
       /\ nextRun > NextRunComputedAt
       /\ IsMatch(schedule, nextRun)
       /\ MatchesIn(NextRunComputedAt, nextRun - 1) = {}

\* a run returned at a second the schedule matches: the next run printed
\* is one period later
C14_Witness ==
    /\ RunReturned
    /\ IsMatch(schedule, lastDone)
    /\ lastDone > prevRun.started
    /\ nextRun = lastDone + schedule


\* C15: ordering within a run.  No scanner is started before every server
\* has been queried, no sender before every image has been scanned, and
\* the next run is printed (the run returns) only after all of them; the
\* run is at one step at a time: querying servers in order, then scanning,
\* then notifying in the order of the vulnerable list.
C15_OrderWithinRun ==
    /\ phase = "query" => scans = <<>> /\ sends = <<>> /\ pending = {}
    /\ scans # <<>> => hostIdx = Len(servers) + 1
    /\ phase = "scan" => sends = <<>> /\ pending # {}
    /\ sends # <<>> => pending = {} /\ ImageIds(Scanned) = ImageIds(images)
    /\ \A i \in 1..Len(scans) :
          scans[i].result.launched => scans[i].image \notin pending
    /\ Cardinality(Scanned) = Len(scans)
    /\ failed <= hostIdx - 1
    /\ RunReturned =>
          /\ hostIdx = Len(servers) + 1
          /\ pending = {}
          /\ Len(scans) = Cardinality(images)
          /\ Len(sends) = Len(vulnerable)
          /\ nextRun = After(schedule, lastDone)
    /\ (active = 1 /\ loop = "blocked") =>
          nextRun = After(schedule, NextRunComputedAt)

\* two servers were queried, one of them failing, before the first of two
\* scans; both scans were over before the notification
C15_Witness ==
    /\ phase = "report"
    /\ Len(servers) = 2
    /\ failed = 1
    /\ Len(scans) = 2
    /\ Len(sends) = 1


RECURSIVE SeenAfter(_, _)
\* for each digest, the name it is listed with first (the one insert
\* keeps) and the name it is listed with last (the one a replacing insert
\* would keep), after a listing
SeenAfter(sn, containers) ==
    IF containers = <<>> THEN sn
    ELSE LET c == Head(containers)
             img == [name |-> c.image, id |-> Digest(c)]
         IN  SeenAfter(
                [first |-> IF \E e \in sn.first : e.id = img.id
                           THEN sn.first ELSE sn.first \cup {img},
                 last |-> { e \in sn.last : e.id # img.id } \cup {img}],
                Tail(containers))

NothingSeen == [first |-> {}, last |-> {}]

RECURSIVE ListedInOrder(_, _, _)
\* the names listed first and last for each digest by the answering hosts,
\* the hosts taken in the given order
ListedInOrder(resps, order, sn) ==
    IF order = <<>> THEN sn
    ELSE ListedInOrder(resps, Tail(order),
            IF resps[Head(order)].ok
            THEN SeenAfter(sn, resps[Head(order)].containers)
            ELSE sn)

\* the same for the servers queried so far in this run
Listed == ListedInOrder(answers, SubSeq(servers, 1, hostIdx - 1), NothingSeen)

\* C16 as stated: of two containers listed with one digest under two
\* names, the inventory keeps the name of the one inserted last.
C16_LastInsertedWins == answers # <<>> => images = Listed.last

\* C16 amended: the inventory keeps the name of the container inserted
\* first, that is the first one with that digest in the listings of the
\* answering hosts, taken in the order of the host list; this name is the
\* scan target and the name in the notification.
C16_FirstInsertedWins ==
    answers # <<>> =>
       /\ images = Listed.first
       /\ \A i \in 1..Len(scans) :
             /\ scans[i].image \in Listed.first
             /\ scans[i].args.target = scans[i].image.name
       /\ \A i \in 1..Len(sends) :
             /\ sends[i].image \in Listed.first
             /\ sends[i].message =
                   sends[i].image.name \o <<":">> \o sends[i].image.id

\* one digest was listed under two names by two hosts; the first name was
\* the scan target and is in the notification
C16_Witness ==
    /\ answers # <<>>
    /\ Len(servers) = 2
    /\ failed = 0
    /\ Len(sends) = 1
    /\ sends[1].image \in Listed.first
    /\ sends[1].image \notin Listed.last
    /\ \E h \in 1..2 : \A c \in Range(answers[h].containers) :
          Digest(c) # sends[1].image.id \/ c.image = sends[1].image.name

\* C17: digest normalization.  A container listed with the image id
\* <algorithm>:<hex> is held in the inventory under the identity <hex>,
\* the whole text after the prefix and nothing else, and no identity in
\* the inventory holds the prefix or its colon.
C17_DigestNormalized ==
    /\ \A c \in reported : \A algo \in Algorithms, hex \in HexTexts :
          c.image_id = algo \o <<":">> \o hex =>
             /\ \E img \in images : img.name = c.image /\ img.id = hex
             /\ \A img \in images : img.id = hex
    /\ \A img \in images :
          /\ ":" \notin Range(img.id)
          /\ \A algo \in Algorithms :
                ~StartsWith(img.id, algo \o <<":">>)
    /\ Cardinality(images) = Cardinality(reported)

\* a listing with the id "sha:" and two hexadecimal digits has gone through
\* Image::new
C17_Witness ==
    /\ phase = "scan"
    /\ \E c \in reported : StartsWith(c.image_id, <<"s", "h", "a", ":">>)
    /\ \E img \in images : Len(img.id) = 2 /\ img \in pending


\* C18 as stated, in its safety form: a run that has started is never cut
\* off.  While every scanner the run started was launched and has returned,
\* main is inside the run and the run has a next step to take (a host to
\* query, an image to scan, a notification to send, or the last line to
\* print), so that it goes on to completion and the loop never ends.
C18_RunProceeds ==
    (active = 1 /\ \A i \in 1..Len(scans) : scans[i].result.launched) =>
       /\ loop = "blocked"
       /\ RunStepPossible


\* C19: a scanner that cannot be launched ends the process and the run's
\* notifications are lost.  No sender starts while an image of the run is
\* still to be scanned; when the scanner cannot be launched for an image the
\* process is gone, in the middle of the scans, with no sender started in
\* that run although images may have been found vulnerable; and a process
\* that is gone takes no further step, so no later run occurs.
C19_LaunchFailureAborts ==
    /\ sends # <<>> =>
          /\ pending = {}
          /\ \A i \in 1..Len(scans) : scans[i].result.launched
    /\ \A i \in 1..Len(scans) :
          ~scans[i].result.launched =>
             /\ i = Len(scans)
             /\ loop = "panicked"
             /\ panic = "failed to run trivy"
             /\ active = 1
             /\ phase = "scan"
             /\ scans[i].image \in pending
             /\ sends = <<>>
    /\ loop = "panicked" => ~ENABLED Next

\* the scanner could not be launched for the second image of a run whose
\* first image had been found vulnerable: nothing was sent
C19_Witness ==
    /\ panic = "failed to run trivy"
    /\ Len(scans) = 2
    /\ Len(vulnerable) = 1
    /\ sends = <<>>


\* the digests listed by the hosts that answered
AnsweredDigests ==
    UNION { Digests(Range(answers[h].containers)) :
               h \in { k \in DOMAIN answers : answers[k].ok } }

\* C20: the aggregation does not depend on the order of the hosts as far
\* as identity goes.  With the answer of every host fixed (failures among
\* them), once every server has been queried the digests of the inventory
\* are the union of the digests listed by the hosts that answered, and they
\* are the digests of the inventory got in any other order of the host list.
C20_DigestsIndependentOfOrder ==
    (answers # <<>> /\ hostIdx > Len(servers) /\ scans = <<>>) =>
       /\ ImageIds(images) = AnsweredDigests
       /\ images \in AggregateInOrder(answers, servers, {})
       /\ \A order \in Orders(Len(servers)) :
             \A other \in AggregateInOrder(answers, order, {}) :
                /\ ImageIds(other) = ImageIds(images)
                /\ Cardinality(other) = Cardinality(images)

\* two hosts, one of them failing or not, were queried, and in another order
\* of the host list the inventory holds another name for a digest
C20_Witness ==
    /\ answers # <<>>
    /\ hostIdx > Len(servers)
    /\ scans = <<>>
    /\ Len(servers) = 2
    /\ \E order \in Orders(2) :
          \E other \in AggregateInOrder(answers, order, {}) :
             /\ other # images
             /\ ImageIds(other) = ImageIds(images)

=============================================================================
